---- MODULE Spec2Model ----
(***************************************************************************)
(* Model of softcon_finetune.py: the country-specific train/val splitter   *)
(* (load_country_train_val), the band-transform pipelines (train_transform *)
(* and val_transform) and the script body (split, model assembly, fit,     *)
(* save).                                                                  *)
(***************************************************************************)
EXTENDS Integers, Sequences, FiniteSets, TLC

(***************************************************************************)
(* Bounds of the model.                                                    *)
(***************************************************************************)
MaxRows == 3
MaxSamples == 4
MaxDraws == 1

(***************************************************************************)
(* Small value domains.                                                    *)
(***************************************************************************)
Countries == {"Ireland", "Austria"}
Splits == {"train", "val", "test"}
NoneSeed == 0 - 1
Seeds == {123, 6}
TrainFracs == {5, 8}
RngMod == 8

VARIABLES
    meta, args, pc, available, rng, sampled, split_at, train_ids, val_ids,
    train_ds, val_ds, err, global_rng, draws, first

splitVars == <<meta, args, pc, available, rng, sampled, split_at, train_ids,
               val_ids, train_ds, val_ds, err, global_rng, draws, first>>

VARIABLES
    spc, stages, torch_rng, params, fresh_w, ckpt_vitb14, model_state,
    lora_model, lora_with_head, pl_model, train_loader, val_loader,
    epoch, phase, batch_idx, exc, out_file, writes

scriptVars == <<spc, stages, torch_rng, params, fresh_w, ckpt_vitb14, model_state,
                lora_model, lora_with_head, pl_model, train_loader, val_loader,
                epoch, phase, batch_idx, exc, out_file, writes>>

VARIABLES tf_name, tf_pos, img, tf_trace, in_kind, in_chans

tfVars == <<tf_name, tf_pos, img, tf_trace, in_kind, in_chans>>

vars == <<splitVars, scriptVars, tfVars>>

(***************************************************************************)
(* The metadata table: one row per patch, patch_id is the key.             *)
(***************************************************************************)
MetaTables ==
    { [i \in 1..MaxRows |-> [patch_id |-> i, country |-> f[i][1], split |-> f[i][2]]] :
        f \in [1..MaxRows -> Countries \X Splits] }

(***************************************************************************)
(* Pseudo-random generators: random.Random(seed) and the module-level      *)
(* generator of `random`, as a full-period congruential generator.         *)
(***************************************************************************)
SeedState(s) == s % RngMod

RngNext(st) == (st + 5) % RngMod

Randbelow(st, n) == (st \div 2) % n

RandomStatesGlobal(s) == {global_rng}

RandomStates(s) == IF s = NoneSeed THEN 0..(RngMod - 1) ELSE {SeedState(s)}

RECURSIVE SampleLoop(_, _, _, _, _, _)
SampleLoop(pool, n, i, k, st, result) ==
    IF i = k THEN result
    ELSE LET st2 == RngNext(st)
             j == Randbelow(st2, n - i) + 1
         IN SampleLoop([pool EXCEPT ![j] = pool[n - i]], n, i + 1, k, st2,
                       Append(result, pool[j]))

Sample(st, population, k) == SampleLoop(population, Len(population), 0, k, st, <<>>)

(***************************************************************************)
(* load_country_train_val                                                  *)
(***************************************************************************)
RECURSIVE FilterAnySplit(_, _)
FilterAnySplit(rows, c) ==
    IF rows = <<>> THEN <<>>
    ELSE LET r == Head(rows)
             rest == FilterAnySplit(Tail(rows), c)
         IN IF r.country = c THEN <<r.patch_id>> \o rest ELSE rest

RECURSIVE Filter(_, _)
Filter(rows, c) ==
    IF rows = <<>> THEN <<>>
    ELSE LET r == Head(rows)
             rest == Filter(Tail(rows), c)
         IN IF r.country = c /\ r.split = "train" THEN <<r.patch_id>> \o rest ELSE rest

SplitAtCeil(n, frac) == (n * frac + 9) \div 10

SplitAt(n, frac) == (n * frac) \div 10

SeqToSet(s) == { s[i] : i \in 1..Len(s) }

NoDs == [keep_ids |-> {}, transform |-> "none", split |-> "none", made |-> FALSE]

MakeDs(keep_ids, transform) ==
    [keep_ids |-> keep_ids, transform |-> transform, split |-> "train", made |-> TRUE]

Admitted(ds) ==
    { meta[i].patch_id : i \in { j \in 1..Len(meta) :
        meta[j].split = ds.split /\ meta[j].patch_id \in ds.keep_ids } }

NoResult == [set |-> FALSE, train_ids |-> {}, val_ids |-> {}]

(***************************************************************************)
(* State of the script body before the split is called.                    *)
(***************************************************************************)
seed == 123
max_epochs == 25
batch_size == 32
num_classes == 19

ParamNames == {"backbone", "lora", "classifier", "pl_classifier"}
CkptWeights == {100, 200}

NoParam == [exists |-> FALSE, val |-> 0, steps |-> 0, requires_grad |-> FALSE, out |-> 0]
NoModule == [built |-> FALSE, model |-> <<>>, classifier |-> "none"]
NoLoader == [ds |-> NoDs, batch_size |-> 0, shuffle |-> FALSE]
NoFile == [written |-> FALSE, keys |-> {}, state |-> [p \in ParamNames |-> NoParam]]
NoCkpt == [loaded |-> FALSE, w |-> 0]

NoImg == [ok |-> TRUE, chans |-> <<>>, h |-> 0, w |-> 0,
          hflip |-> FALSE, vflip |-> FALSE, rot |-> 0, crop |-> 100]

TfIdle ==
    /\ tf_name = "none"
    /\ tf_pos = 0
    /\ img = NoImg
    /\ tf_trace = <<>>
    /\ in_kind = "none"
    /\ in_chans = 0

ScriptInit ==
    /\ spc = "split"
    /\ stages = <<"split">>
    /\ torch_rng = SeedState(seed)
    /\ params = [p \in ParamNames |-> NoParam]
    /\ fresh_w = 0
    /\ ckpt_vitb14 = NoCkpt
    /\ model_state = NoCkpt
    /\ lora_model = <<>>
    /\ lora_with_head = <<>>
    /\ pl_model = NoModule
    /\ train_loader = NoLoader
    /\ val_loader = NoLoader
    /\ epoch = 0
    /\ phase = "none"
    /\ batch_idx = 0
    /\ exc = "none"
    /\ out_file = NoFile
    /\ writes = 0

InitSplit ==
    /\ meta \in MetaTables
    /\ args \in [country : Countries, n_samples : 0..MaxSamples,
                 seed : Seeds \cup {NoneSeed}, train_frac : TrainFracs]
    /\ pc = "call"
    /\ available = <<>>
    /\ rng = NoneSeed
    /\ sampled = <<>>
    /\ split_at = 0
    /\ train_ids = {}
    /\ val_ids = {}
    /\ train_ds = NoDs
    /\ val_ds = NoDs
    /\ err = "none"
    /\ global_rng = SeedState(seed)
    /\ draws = 0
    /\ first = NoResult
    /\ ScriptInit
    /\ TfIdle

FilterAvailable ==
    /\ pc = "call"
    /\ available' = Filter(meta, args.country)
    /\ pc' = "check"
    /\ UNCHANGED <<meta, args, rng, sampled, split_at, train_ids, val_ids,
                   train_ds, val_ds, err, global_rng, draws, first>>
    /\ UNCHANGED <<scriptVars, tfVars>>

TooManyOnly(avail, n) == n > Len(avail)

Rejected(avail, n) == avail = <<>> \/ n > Len(avail)

CheckAvailable ==
    /\ pc = "check"
    /\ IF Rejected(available, args.n_samples)
       THEN /\ err' = "ValueError"
            /\ pc' = "raised"
       ELSE /\ err' = err
            /\ pc' = "sample"
    /\ UNCHANGED <<meta, args, available, rng, sampled, split_at, train_ids,
                   val_ids, train_ds, val_ds, global_rng, draws, first>>
    /\ UNCHANGED <<scriptVars, tfVars>>

SampleIds ==
    /\ pc = "sample"
    /\ \E st \in RandomStates(args.seed) :
          /\ rng' = st
          /\ sampled' = Sample(st, available, args.n_samples)
    /\ pc' = "partition"
    /\ UNCHANGED <<meta, args, available, split_at, train_ids, val_ids,
                   train_ds, val_ds, err, global_rng, draws, first>>
    /\ UNCHANGED <<scriptVars, tfVars>>

Partition ==
    /\ pc = "partition"
    /\ split_at' = SplitAt(args.n_samples, args.train_frac)
    /\ train_ids' = SeqToSet(SubSeq(sampled, 1, split_at'))
    /\ val_ids' = SeqToSet(SubSeq(sampled, split_at' + 1, Len(sampled)))
    /\ pc' = "make_train"
    /\ UNCHANGED <<meta, args, available, rng, sampled, train_ds, val_ds, err,
                   global_rng, draws, first>>
    /\ UNCHANGED <<scriptVars, tfVars>>

MakeTrainDs ==
    /\ pc = "make_train"
    /\ train_ds' = MakeDs(train_ids, "train_transform")
    /\ pc' = "make_val"
    /\ UNCHANGED <<meta, args, available, rng, sampled, split_at, train_ids,
                   val_ids, val_ds, err, global_rng, draws, first>>
    /\ UNCHANGED <<scriptVars, tfVars>>

MakeValDs ==
    /\ pc = "make_val"
    /\ val_ds' = MakeDs(val_ids, "val_transform")
    /\ pc' = "returned"
    /\ UNCHANGED <<meta, args, available, rng, sampled, split_at, train_ids,
                   val_ids, train_ds, err, global_rng, draws, first>>
    /\ UNCHANGED <<scriptVars, tfVars>>

(***************************************************************************)
(* The caller between two invocations: draws from the module-level         *)
(* generator, and a second invocation with the same arguments.             *)
(***************************************************************************)
GlobalDraw ==
    /\ pc \in {"call", "returned"}
    /\ draws < MaxDraws
    /\ global_rng' = RngNext(global_rng)
    /\ draws' = draws + 1
    /\ UNCHANGED <<meta, args, pc, available, rng, sampled, split_at, train_ids,
                   val_ids, train_ds, val_ds, err, first>>
    /\ UNCHANGED <<scriptVars, tfVars>>

CallAgain ==
    /\ pc = "returned"
    /\ ~first.set
    /\ first' = [set |-> TRUE, train_ids |-> train_ids, val_ids |-> val_ids]
    /\ pc' = "call"
    /\ available' = <<>>
    /\ rng' = NoneSeed
    /\ sampled' = <<>>
    /\ split_at' = 0
    /\ train_ids' = {}
    /\ val_ids' = {}
    /\ train_ds' = NoDs
    /\ val_ds' = NoDs
    /\ draws' = 0
    /\ UNCHANGED <<meta, args, err, global_rng>>
    /\ UNCHANGED <<scriptVars, tfVars>>

NextSplit ==
    \/ FilterAvailable
    \/ CheckAvailable
    \/ SampleIds
    \/ Partition
    \/ MakeTrainDs
    \/ MakeValDs
    \/ GlobalDraw
    \/ CallAgain

SpecSplit == InitSplit /\ [][NextSplit]_vars

(***************************************************************************)
(* The script body: split, data loaders, model assembly, fit, save.        *)
(***************************************************************************)
Init ==
    /\ meta \in MetaTables
    /\ args \in [country : {"Ireland"}, n_samples : 0..MaxSamples,
                 seed : {seed}, train_frac : {8}]
    /\ pc = "call"
    /\ available = <<>>
    /\ rng = NoneSeed
    /\ sampled = <<>>
    /\ split_at = 0
    /\ train_ids = {}
    /\ val_ids = {}
    /\ train_ds = NoDs
    /\ val_ds = NoDs
    /\ err = "none"
    /\ global_rng = SeedState(seed)
    /\ draws = 0
    /\ first = NoResult
    /\ ScriptInit
    /\ TfIdle

InitWeights(st) == RngNext(st)

NewParam(st) ==
    [exists |-> TRUE, val |-> InitWeights(st), steps |-> 0, requires_grad |-> TRUE, out |-> 0]

AfterStepSwallowed(ok, normal) == normal

\* an exception propagates out of the script: nothing catches it
AfterStep(ok, normal) == IF ok THEN normal ELSE "aborted"

SplitRaised ==
    /\ spc = "split"
    /\ pc = "raised"
    /\ spc' = AfterStep(FALSE, "loaders")
    /\ exc' = err
    /\ UNCHANGED <<stages, torch_rng, params, fresh_w, ckpt_vitb14, model_state,
                   lora_model, lora_with_head, pl_model, train_loader, val_loader,
                   epoch, phase, batch_idx, out_file, writes>>
    /\ UNCHANGED <<splitVars, tfVars>>

MakeLoaders ==
    /\ spc = "split"
    /\ pc = "returned"
    /\ train_loader' = [ds |-> train_ds, batch_size |-> batch_size, shuffle |-> TRUE]
    /\ val_loader' = [ds |-> val_ds, batch_size |-> batch_size, shuffle |-> FALSE]
    /\ spc' = "build_backbone"
    /\ UNCHANGED <<stages, torch_rng, params, fresh_w, ckpt_vitb14, model_state,
                   lora_model, lora_with_head, pl_model, epoch, phase, batch_idx,
                   exc, out_file, writes>>
    /\ UNCHANGED <<splitVars, tfVars>>

BuildBackbone ==
    /\ spc = "build_backbone"
    /\ params' = [params EXCEPT !["backbone"] = NewParam(torch_rng)]
    /\ fresh_w' = InitWeights(torch_rng)
    /\ torch_rng' = RngNext(torch_rng)
    /\ stages' = Append(stages, "assembly")
    /\ spc' = "load_ckpt"
    /\ UNCHANGED <<ckpt_vitb14, model_state, lora_model, lora_with_head, pl_model,
                   train_loader, val_loader, epoch, phase, batch_idx, exc,
                   out_file, writes>>
    /\ UNCHANGED <<splitVars, tfVars>>

LoadCkpt ==
    /\ spc = "load_ckpt"
    /\ \E present \in BOOLEAN, w \in CkptWeights :
          /\ ckpt_vitb14' = IF present THEN [loaded |-> TRUE, w |-> w] ELSE ckpt_vitb14
          /\ exc' = IF present THEN exc ELSE "IOError"
          /\ spc' = AfterStep(present, "state_dict")
    /\ UNCHANGED <<stages, torch_rng, params, fresh_w, model_state, lora_model,
                   lora_with_head, pl_model, train_loader, val_loader, epoch,
                   phase, batch_idx, out_file, writes>>
    /\ UNCHANGED <<splitVars, tfVars>>

TakeStateDict ==
    /\ spc = "state_dict"
    /\ model_state' = [loaded |-> TRUE, w |-> params["backbone"].val]
    /\ spc' = "load_state_dict"
    /\ UNCHANGED <<stages, torch_rng, params, fresh_w, ckpt_vitb14, lora_model,
                   lora_with_head, pl_model, train_loader, val_loader, epoch,
                   phase, batch_idx, exc, out_file, writes>>
    /\ UNCHANGED <<splitVars, tfVars>>

StateToLoadCkpt(ms, ck) == ck

\* the argument of load_state_dict
StateToLoad(ms, ck) == ms

LoadStateDict ==
    /\ spc = "load_state_dict"
    /\ params' = [params EXCEPT !["backbone"].val = StateToLoad(model_state, ckpt_vitb14).w]
    /\ spc' = "wrap_lora"
    /\ UNCHANGED <<stages, torch_rng, fresh_w, ckpt_vitb14, model_state, lora_model,
                   lora_with_head, pl_model, train_loader, val_loader, epoch,
                   phase, batch_idx, exc, out_file, writes>>
    /\ UNCHANGED <<splitVars, tfVars>>

WrapLoRA ==
    /\ spc = "wrap_lora"
    /\ params' = [params EXCEPT !["backbone"].requires_grad = FALSE,
                                !["lora"] = NewParam(torch_rng)]
    /\ torch_rng' = RngNext(torch_rng)
    /\ lora_model' = <<"backbone", "lora">>
    /\ spc' = "add_head"
    /\ UNCHANGED <<stages, fresh_w, ckpt_vitb14, model_state, lora_with_head,
                   pl_model, train_loader, val_loader, epoch, phase, batch_idx,
                   exc, out_file, writes>>
    /\ UNCHANGED <<splitVars, tfVars>>

AddHead ==
    /\ spc = "add_head"
    /\ params' = [params EXCEPT !["classifier"] = [NewParam(torch_rng) EXCEPT !.out = num_classes]]
    /\ torch_rng' = RngNext(torch_rng)
    /\ lora_with_head' = lora_model \o <<"classifier">>
    /\ spc' = "mark_trainable"
    /\ UNCHANGED <<stages, fresh_w, ckpt_vitb14, model_state, lora_model, pl_model,
                   train_loader, val_loader, epoch, phase, batch_idx, exc,
                   out_file, writes>>
    /\ UNCHANGED <<splitVars, tfVars>>

MarkHeadTrainable ==
    /\ spc = "mark_trainable"
    /\ params' = [params EXCEPT !["classifier"].requires_grad = TRUE]
    /\ spc' = "build_module"
    /\ UNCHANGED <<stages, torch_rng, fresh_w, ckpt_vitb14, model_state, lora_model,
                   lora_with_head, pl_model, train_loader, val_loader, epoch,
                   phase, batch_idx, exc, out_file, writes>>
    /\ UNCHANGED <<splitVars, tfVars>>

\* SoftConLightningModule(lora_model, embed_dim, num_classes=19): self.model is
\* the argument, self.classifier is a new nn.Linear
NewModule(model) == [built |-> TRUE, model |-> model, classifier |-> "pl_classifier"]

BuildModule ==
    /\ spc = "build_module"
    /\ pl_model' = NewModule(lora_model)
    /\ params' = [params EXCEPT ![NewModule(lora_model).classifier] =
                                   [NewParam(torch_rng) EXCEPT !.out = 19]]
    /\ torch_rng' = RngNext(torch_rng)
    /\ spc' = "fit_call"
    /\ UNCHANGED <<stages, fresh_w, ckpt_vitb14, model_state, lora_model,
                   lora_with_head, train_loader, val_loader, epoch, phase,
                   batch_idx, exc, out_file, writes>>
    /\ UNCHANGED <<splitVars, tfVars>>

ModuleParams(m) == SeqToSet(m.model) \cup {m.classifier}

\* forward: features = self.model(x); return self.classifier(features)
ForwardPath(m) == m.model \o <<m.classifier>>

NumBatches(loader) ==
    (Cardinality(Admitted(loader.ds)) + loader.batch_size - 1) \div loader.batch_size

FitStart ==
    /\ spc = "fit_call"
    /\ stages' = Append(stages, "fit")
    /\ epoch' = 0
    /\ phase' = "train"
    /\ batch_idx' = 0
    /\ spc' = "fit"
    /\ UNCHANGED <<torch_rng, params, fresh_w, ckpt_vitb14, model_state, lora_model,
                   lora_with_head, pl_model, train_loader, val_loader, exc,
                   out_file, writes>>
    /\ UNCHANGED <<splitVars, tfVars>>

\* one batch: data loading, forward, loss, backward, Adam step over the
\* parameters of the module that require a gradient
TrainStep ==
    /\ spc = "fit"
    /\ phase = "train"
    /\ batch_idx < NumBatches(train_loader)
    /\ \E ok \in BOOLEAN :
          /\ params' = IF ok
                       THEN [p \in ParamNames |->
                               IF p \in ModuleParams(pl_model) /\ params[p].requires_grad
                               THEN [params[p] EXCEPT !.steps = @ + 1]
                               ELSE params[p]]
                       ELSE params
          /\ batch_idx' = IF ok THEN batch_idx + 1 ELSE batch_idx
          /\ exc' = IF ok THEN exc ELSE "RuntimeError"
          /\ spc' = AfterStep(ok, "fit")
    /\ UNCHANGED <<stages, torch_rng, fresh_w, ckpt_vitb14, model_state, lora_model,
                   lora_with_head, pl_model, train_loader, val_loader, epoch,
                   phase, out_file, writes>>
    /\ UNCHANGED <<splitVars, tfVars>>

TrainEpochEnd ==
    /\ spc = "fit"
    /\ phase = "train"
    /\ batch_idx = NumBatches(train_loader)
    /\ phase' = "val"
    /\ batch_idx' = 0
    /\ UNCHANGED <<spc, stages, torch_rng, params, fresh_w, ckpt_vitb14, model_state,
                   lora_model, lora_with_head, pl_model, train_loader, val_loader,
                   epoch, exc, out_file, writes>>
    /\ UNCHANGED <<splitVars, tfVars>>

ValStep ==
    /\ spc = "fit"
    /\ phase = "val"
    /\ batch_idx < NumBatches(val_loader)
    /\ \E ok \in BOOLEAN :
          /\ batch_idx' = IF ok THEN batch_idx + 1 ELSE batch_idx
          /\ exc' = IF ok THEN exc ELSE "RuntimeError"
          /\ spc' = AfterStep(ok, "fit")
    /\ UNCHANGED <<stages, torch_rng, params, fresh_w, ckpt_vitb14, model_state,
                   lora_model, lora_with_head, pl_model, train_loader, val_loader,
                   epoch, phase, out_file, writes>>
    /\ UNCHANGED <<splitVars, tfVars>>

EpochEnd ==
    /\ spc = "fit"
    /\ phase = "val"
    /\ batch_idx = NumBatches(val_loader)
    /\ epoch' = epoch + 1
    /\ batch_idx' = 0
    /\ IF epoch + 1 = max_epochs
       THEN /\ phase' = "none"
            /\ spc' = "fit_returned"
       ELSE /\ phase' = "train"
            /\ spc' = spc
    /\ UNCHANGED <<stages, torch_rng, params, fresh_w, ckpt_vitb14, model_state,
                   lora_model, lora_with_head, pl_model, train_loader, val_loader,
                   exc, out_file, writes>>
    /\ UNCHANGED <<splitVars, tfVars>>

Save ==
    /\ spc = "fit_returned"
    /\ stages' = Append(stages, "save")
    /\ out_file' = [written |-> TRUE, keys |-> ModuleParams(pl_model),
                    state |-> [p \in ParamNames |->
                                 IF p \in ModuleParams(pl_model) THEN params[p] ELSE NoParam]]
    /\ writes' = writes + 1
    /\ spc' = "done"
    /\ UNCHANGED <<torch_rng, params, fresh_w, ckpt_vitb14, model_state, lora_model,
                   lora_with_head, pl_model, train_loader, val_loader, epoch,
                   phase, batch_idx, exc>>
    /\ UNCHANGED <<splitVars, tfVars>>

Next ==
    \/ (spc = "split" /\ FilterAvailable)
    \/ (spc = "split" /\ CheckAvailable)
    \/ (spc = "split" /\ SampleIds)
    \/ (spc = "split" /\ Partition)
    \/ (spc = "split" /\ MakeTrainDs)
    \/ (spc = "split" /\ MakeValDs)
    \/ SplitRaised
    \/ MakeLoaders
    \/ BuildBackbone
    \/ LoadCkpt
    \/ TakeStateDict
    \/ LoadStateDict
    \/ WrapLoRA
    \/ AddHead
    \/ MarkHeadTrainable
    \/ BuildModule
    \/ FitStart
    \/ TrainStep
    \/ TrainEpochEnd
    \/ ValStep
    \/ EpochEnd
    \/ Save

Spec == Init /\ [][Next]_vars


(***************************************************************************)
(* Properties of load_country_train_val (checked under SpecSplit).         *)
(***************************************************************************)
NumAvailable == Len(Filter(meta, args.country))

Computed == pc \in {"make_train", "make_val", "returned"}

Finished == pc \in {"raised", "returned"}

FloorFrac(n, tenths) == CHOOSE q \in 0..n : 10 * q <= tenths * n /\ tenths * n < 10 * (q + 1)

SplitShape ==
    /\ train_ids \cap val_ids = {}
    /\ Cardinality(train_ids) = FloorFrac(args.n_samples, 8)
    /\ Cardinality(train_ids) + Cardinality(val_ids) = args.n_samples
    /\ train_ids = { sampled[i] : i \in 1..FloorFrac(args.n_samples, 8) }
    /\ val_ids = { sampled[i] : i \in (FloorFrac(args.n_samples, 8) + 1)..args.n_samples }

\* C1 (as stated): for every country and every n_samples with
\* 0 <= n_samples <= number of train rows of the country, and train_frac = 0.8,
\* the call computes disjoint train_ids / val_ids with |train_ids| =
\* floor(0.8 * n_samples) and |train_ids| + |val_ids| = n_samples.
C1_AsStated ==
    (args.train_frac = 8 /\ args.n_samples <= NumAvailable /\ Finished)
        => (pc = "returned" /\ SplitShape)

\* C1 (amended): the same, for every country that has at least one train row;
\* the Ireland / 1000 / 0.8 instance partitions at index 800, leaving 200.
C1_SplitSizes ==
    /\ (args.train_frac = 8 /\ NumAvailable >= 1 /\ args.n_samples <= NumAvailable)
          => /\ Finished => pc = "returned"
             /\ Computed => SplitShape
    /\ SplitAt(1000, 8) = 800
    /\ 1000 - SplitAt(1000, 8) = 200

C1_Witness ==
    /\ pc = "returned"
    /\ args.train_frac = 8
    /\ args.n_samples = 3
    /\ Cardinality(train_ids) = 2
    /\ Cardinality(val_ids) = 1

InvalidCombination == NumAvailable = 0 \/ args.n_samples > NumAvailable

\* C2: for every invalid combination (no train row for the country, or
\* n_samples above the number of the country's train rows) the call raises the
\* explicit error before anything is sampled and before any dataset handle is
\* constructed, and never returns a (train_ds, val_ds) pair.
C2_InvalidRaises ==
    InvalidCombination =>
        /\ pc \in {"call", "check", "raised"}
        /\ sampled = <<>>
        /\ rng = NoneSeed
        /\ train_ids = {} /\ val_ids = {}
        /\ train_ds = NoDs /\ val_ds = NoDs
        /\ ~first.set
        /\ (pc = "raised" <=> err = "ValueError")

C2_Witness ==
    /\ pc = "raised"
    /\ err = "ValueError"
    /\ NumAvailable >= 1
    /\ args.n_samples > NumAvailable

C2_WitnessAbsent ==
    /\ pc = "raised"
    /\ NumAvailable = 0

\* C3: with a fixed seed, a second invocation with the same arguments over the
\* same metadata computes the same (train_ids, val_ids) as the first, whatever
\* the module-level generator's state and whatever was drawn from it between.
C3_SameSeedSameSplit ==
    (args.seed # NoneSeed /\ first.set /\ Computed)
        => (train_ids = first.train_ids /\ val_ids = first.val_ids)

C3_Witness ==
    /\ args.seed # NoneSeed
    /\ first.set
    /\ pc = "returned"
    /\ draws > 0
    /\ global_rng # SeedState(123)
    /\ train_ids # {}
    /\ val_ids # {}
    /\ train_ids = first.train_ids

\* Without a seed the generator is seeded from entropy and two invocations
\* may differ: the seed is what makes C3 hold.
C3_UnseededMayDiffer ==
    /\ args.seed = NoneSeed
    /\ first.set
    /\ pc = "returned"
    /\ train_ids # first.train_ids

IsTrainRowOf(id, c) ==
    \E i \in 1..Len(meta) :
        meta[i].patch_id = id /\ meta[i].country = c /\ meta[i].split = "train"

AdmitsOnlyRequested(ds) ==
    \A i \in 1..Len(meta) :
        meta[i].patch_id \in Admitted(ds)
            => (meta[i].country = args.country /\ meta[i].split = "train")

\* C4: every id of train_ids and val_ids is the patch_id of a train row of the
\* requested country; the train handle admits exactly train_ids with the
\* training transform, the validation handle exactly val_ids with the
\* validation transform; neither admits a patch of another country or split.
C4_OnlyRequestedTrainPatches ==
    /\ Computed => \A id \in train_ids \cup val_ids : IsTrainRowOf(id, args.country)
    /\ train_ds.made =>
          /\ Admitted(train_ds) = train_ids
          /\ train_ds.keep_ids = train_ids
          /\ train_ds.transform = "train_transform"
          /\ AdmitsOnlyRequested(train_ds)
    /\ val_ds.made =>
          /\ Admitted(val_ds) = val_ids
          /\ val_ds.keep_ids = val_ids
          /\ val_ds.transform = "val_transform"
          /\ AdmitsOnlyRequested(val_ds)
    /\ pc = "returned" => (train_ds.made /\ val_ds.made)

C4_Witness ==
    /\ pc = "returned"
    /\ train_ids # {}
    /\ val_ids # {}
    /\ \E i \in 1..Len(meta) : meta[i].country # args.country /\ meta[i].split = "train"
    /\ Admitted(train_ds) = train_ids

(***************************************************************************)
(* The band-transform pipelines.  An image is a sequence of channels; a    *)
(* channel carries the band it holds and its (constant) pixel value as a   *)
(* fraction num / den.  Statistics are rounded to integers.                *)
(***************************************************************************)
MaxChans == 15

Sizes == {1, 120, 224}

ALL_BANDS_S2_L2A ==
    <<"B1", "B2", "B3", "B4", "B5", "B6", "B7", "B8", "B8A", "B9", "B10", "B11", "B12">>

S2A_MEAN == <<752, 884, 1144, 1297, 1625, 2195, 2422, 2518, 2582, 2646, 0, 2369, 1805>>

S2A_STD == <<1108, 1155, 1184, 1368, 1370, 1356, 1417, 1475, 1439, 1582, 1, 1456, 1343>>

\* what the loader delivers: VV, VH, then the optical bands in order (no B10)
InputBandOrder ==
    <<"VV", "VH", "B1", "B2", "B3", "B4", "B5", "B6", "B7", "B8", "B8A", "B9",
      "B11", "B12", "X1", "X2", "X3", "X4", "X5", "X6">>

train_transform_crop_last ==
    <<"Resize", "DropSARChannels", "ZeroInitializeB10", "RandomHorizontalFlip",
      "RandomVerticalFlip", "RandomChoice", "NormalizeWithStats", "RandomResizedCrop">>

train_transform ==
    <<"Resize", "DropSARChannels", "ZeroInitializeB10", "RandomHorizontalFlip",
      "RandomVerticalFlip", "RandomChoice", "RandomResizedCrop", "NormalizeWithStats">>

val_transform ==
    <<"Resize", "DropSARChannels", "ZeroInitializeB10", "NormalizeWithStats">>

Pipeline(name) == IF name = "train_transform" THEN train_transform ELSE val_transform

InputImage(c, kind, h, w) ==
    [ok |-> TRUE,
     chans |-> [i \in 1..c |-> [band |-> InputBandOrder[i],
                                num |-> IF kind = "zeros" THEN 0 ELSE 100 * i,
                                den |-> 1]],
     h |-> h, w |-> w, hflip |-> FALSE, vflip |-> FALSE, rot |-> 0, crop |-> 100]

InitT ==
    /\ tf_name \in {"train_transform", "val_transform"}
    /\ tf_pos = 1
    /\ in_kind \in {"zeros", "ramp"}
    /\ in_chans \in 1..MaxChans
    /\ \E h \in Sizes, w \in Sizes : img = InputImage(in_chans, in_kind, h, w)
    /\ tf_trace = <<>>
    /\ meta = <<>>
    /\ args = [country |-> "Ireland", n_samples |-> 0, seed |-> seed, train_frac |-> 8]
    /\ pc = "call"
    /\ available = <<>>
    /\ rng = NoneSeed
    /\ sampled = <<>>
    /\ split_at = 0
    /\ train_ids = {}
    /\ val_ids = {}
    /\ train_ds = NoDs
    /\ val_ds = NoDs
    /\ err = "none"
    /\ global_rng = SeedState(seed)
    /\ draws = 0
    /\ first = NoResult
    /\ ScriptInit

\* Python slice s[a:b] on 0-based indices
Slice(s, a, b) ==
    LET lo == IF a > Len(s) THEN Len(s) ELSE a
        hi == IF b > Len(s) THEN Len(s) ELSE b
    IN IF hi <= lo THEN <<>> ELSE SubSeq(s, lo + 1, hi)

DropFirstOne(chans) == Slice(chans, 1, Len(chans))

\* img[2:, :, :]
DropSAR(chans) == Slice(chans, 2, Len(chans))

ZeroChannel == [band |-> "zero", num |-> 0, den |-> 1]

\* torch.cat([img[:9], b10, img[9:]])
InsertZero(chans) == Slice(chans, 0, 9) \o <<ZeroChannel>> \o Slice(chans, 9, Len(chans))

\* numpy broadcasting of (C,H,W) against the (13,1,1) statistics
Broadcastable(chans) == Len(chans) = Len(S2A_MEAN) \/ Len(chans) = 1

\* (x - mean_c) / std_c
Normalized(chans) ==
    [c \in 1..Len(S2A_MEAN) |->
        LET x == IF Len(chans) = 1 THEN chans[1] ELSE chans[c]
        IN [band |-> x.band, num |-> x.num - S2A_MEAN[c] * x.den, den |-> x.den * S2A_STD[c]]]

Current == IF img.ok /\ tf_pos <= Len(Pipeline(tf_name)) THEN Pipeline(tf_name)[tf_pos] ELSE "end"

Advance(name) ==
    /\ tf_pos' = tf_pos + 1
    /\ tf_trace' = Append(tf_trace, name)
    /\ UNCHANGED <<tf_name, in_kind, in_chans>>
    /\ UNCHANGED <<splitVars, scriptVars>>

Resize ==
    /\ Current = "Resize"
    /\ img' = [img EXCEPT !.h = 224, !.w = 224]
    /\ Advance("Resize")

DropSARChannels ==
    /\ Current = "DropSARChannels"
    /\ img' = [img EXCEPT !.chans = DropSAR(img.chans)]
    /\ Advance("DropSARChannels")

ZeroInitializeB10 ==
    /\ Current = "ZeroInitializeB10"
    /\ img' = [img EXCEPT !.chans = InsertZero(img.chans)]
    /\ Advance("ZeroInitializeB10")

RandomHorizontalFlip ==
    /\ Current = "RandomHorizontalFlip"
    /\ \E flip \in BOOLEAN : img' = [img EXCEPT !.hflip = flip]
    /\ Advance("RandomHorizontalFlip")

RandomVerticalFlip ==
    /\ Current = "RandomVerticalFlip"
    /\ \E flip \in BOOLEAN : img' = [img EXCEPT !.vflip = flip]
    /\ Advance("RandomVerticalFlip")

RandomChoice ==
    /\ Current = "RandomChoice"
    /\ \E deg \in {0, 90, 180, 270} : img' = [img EXCEPT !.rot = deg]
    /\ Advance("RandomChoice")

RandomResizedCrop ==
    /\ Current = "RandomResizedCrop"
    /\ \E scale \in {80, 100} : img' = [img EXCEPT !.crop = scale, !.h = 224, !.w = 224]
    /\ Advance("RandomResizedCrop")

NormalizeWithStats ==
    /\ Current = "NormalizeWithStats"
    /\ img' = IF Broadcastable(img.chans)
              THEN [img EXCEPT !.chans = Normalized(img.chans)]
              ELSE [img EXCEPT !.ok = FALSE]
    /\ Advance("NormalizeWithStats")

NextT ==
    \/ Resize
    \/ DropSARChannels
    \/ ZeroInitializeB10
    \/ RandomHorizontalFlip
    \/ RandomVerticalFlip
    \/ RandomChoice
    \/ RandomResizedCrop
    \/ NormalizeWithStats

SpecT == InitT /\ [][NextT]_vars

Heads == { p \in ParamNames : params[p].exists /\ params[p].out = num_classes }

\* C8: the trainable unit wraps the assembled model, the adapter-wrapped
\* backbone together with the linear head attached during assembly; the head
\* applied in forward, updated by training and written to the output file is
\* that head, and no other embed_dim -> 19 head exists in the run.
C8_UnitWrapsAssembledHead ==
    pl_model.built =>
        /\ ForwardPath(pl_model)[Len(ForwardPath(pl_model))] = "classifier"
        /\ SeqToSet(lora_with_head) \subseteq ModuleParams(pl_model)
        /\ Heads = {"classifier"}
        /\ params["classifier"].steps = params["lora"].steps
        /\ out_file.written => "classifier" \in out_file.keys

IsPrefix(a, b) == Len(a) <= Len(b) /\ a = SubSeq(b, 1, Len(a))

\* C9: the stages occur in the order split, assembly, fit, save; the output
\* file is written at most once and only after fit has returned normally from
\* all 25 epochs; if the split raises or a step of fit raises, the run aborts,
\* nothing is retried and the file is never written.
C9_SaveOnlyAfterFit ==
    /\ IsPrefix(stages, <<"split", "assembly", "fit", "save">>)
    /\ writes <= 1
    /\ out_file.written <=> writes = 1
    /\ writes = 1 =>
          /\ spc = "done"
          /\ epoch = max_epochs
          /\ exc = "none"
          /\ stages = <<"split", "assembly", "fit", "save">>
    /\ exc # "none" <=> spc = "aborted"
    /\ spc = "aborted" => (writes = 0 /\ ~ENABLED Next)
    /\ pc = "raised" => (stages = <<"split">> /\ spc \in {"split", "aborted"})

C9_Witness ==
    /\ spc = "done"
    /\ writes = 1
    /\ out_file.written
    /\ params["pl_classifier"].steps = max_epochs

C9_WitnessAbortInFit ==
    /\ spc = "aborted"
    /\ exc = "RuntimeError"
    /\ epoch > 0
    /\ writes = 0

(***************************************************************************)
(* Properties of the transform pipelines (checked under SpecT).            *)
(***************************************************************************)
Completed == tf_pos > Len(Pipeline(tf_name))

BandIndex(b) == CHOOSE i \in 1..Len(ALL_BANDS_S2_L2A) : ALL_BANDS_S2_L2A[i] = b

\* C5: the zero-filled channel inserted by ZeroInitializeB10 sits at the
\* channel index of the B10 entry of the statistics and of the band ordering,
\* so for an all-zero input (2 SAR + 12 optical bands) the inserted band of the
\* output is exactly 0 and every other channel is (0 - mean) / std with the
\* statistics of the band the channel carries.
C5_ZeroBandAtB10 ==
    (Completed /\ img.ok /\ in_kind = "zeros" /\ in_chans = 14) =>
        \A c \in 1..Len(img.chans) :
            IF img.chans[c].band = "zero"
            THEN /\ c = BandIndex("B10")
                 /\ img.chans[c].num = 0
            ELSE /\ img.chans[c].num = 0 - S2A_MEAN[BandIndex(img.chans[c].band)]
                 /\ img.chans[c].den = S2A_STD[BandIndex(img.chans[c].band)]

\* C6 (as stated): for every input with at least 15 channels and any spatial
\* size, both pipelines complete and produce exactly 13 channels.
C6_AsStated ==
    (in_chans >= 15 /\ Current = "end") =>
        (img.ok /\ Completed /\ Len(img.chans) = 13)

\* C6 (amended): for every input with exactly 14 channels (2 SAR + 12
\* optical) and any spatial size, both pipelines complete and produce exactly
\* 13 channels.
C6_ThirteenChannels ==
    in_chans = 14 =>
        /\ img.ok
        /\ Current = "end" => (Completed /\ Len(img.chans) = 13 /\ img.h = 224 /\ img.w = 224)

C6_Witness ==
    /\ in_chans = 14
    /\ tf_name = "train_transform"
    /\ Completed
    /\ img.ok
    /\ img.rot = 90
    /\ Len(img.chans) = 13

C6_WitnessFifteenFails ==
    /\ in_chans = 15
    /\ Completed
    /\ ~img.ok

IsAug(n) ==
    n \in {"RandomHorizontalFlip", "RandomVerticalFlip", "RandomChoice", "RandomResizedCrop"}

NotAug(n) == ~IsAug(n)

Pos(tr, n) == CHOOSE i \in 1..Len(tr) : tr[i] = n

\* C10: the validation pipeline is the training pipeline with exactly the four
\* augmentation steps removed: the remaining steps (resize, drop SAR, insert
\* zero channel, normalise) run in the same order in both, and in the training
\* pipeline all four augmentations run after the zero-channel insertion and
\* before the normalisation.
C10_ValIsTrainWithoutAugmentations ==
    Completed =>
        /\ SelectSeq(tf_trace, NotAug) =
              <<"Resize", "DropSARChannels", "ZeroInitializeB10", "NormalizeWithStats">>
        /\ tf_name = "val_transform" =>
              /\ tf_trace = SelectSeq(train_transform, NotAug)
              /\ \A i \in 1..Len(tf_trace) : NotAug(tf_trace[i])
        /\ tf_name = "train_transform" =>
              /\ SelectSeq(tf_trace, NotAug) = val_transform
              /\ Len(tf_trace) = Len(val_transform) + 4
              /\ \A a \in {"RandomHorizontalFlip", "RandomVerticalFlip",
                           "RandomChoice", "RandomResizedCrop"} :
                    /\ \E i \in 1..Len(tf_trace) : tf_trace[i] = a
                    /\ Pos(tf_trace, "ZeroInitializeB10") < Pos(tf_trace, a)
                    /\ Pos(tf_trace, a) < Pos(tf_trace, "NormalizeWithStats")

C10_Witness ==
    /\ tf_name = "train_transform"
    /\ Completed
    /\ img.ok
    /\ img.hflip
    /\ img.rot = 270
    /\ img.crop = 80

====
